---- MODULE Spec2Model ----
(***************************************************************************)
(* Proposal generator (src/main.py): a spreadsheet template is filled from *)
(* an estimate, its body region (rows 28..47) is grown or shrunk to the    *)
(* number of sign types, and the footer (totals block, merged ranges, row  *)
(* heights) is relocated by the resulting row offset.                      *)
(*                                                                         *)
(* Text is modelled as sequences of one-character strings, so that the     *)
(* splitting, stripping, parsing and formatting of the code are computed   *)
(* character by character.  An optional value (Python None or a value) is  *)
(* a record [some, s].                                                     *)
(***************************************************************************)
EXTENDS Integers, Sequences, FiniteSets, TLC

VARIABLES
    pc,               \* position of the handler / of the function under test
    sign,             \* one sign_types entry (text specification)
    splitOut,         \* result of split_sign_type_and_summary
    descOut,          \* result of build_description_one_cell
    items,            \* argument of sum_extended
    sumOut,           \* result of sum_extended
    signCount,        \* len(sign_types) of the decoded payload
    totalsIn,         \* totals, shipping and installation of the payload
    templateMerges,   \* merged ranges of the template sheet, as loaded
    hp,               \* which row-height pattern the template has
    wbLoaded,         \* load_workbook has returned
    rows,             \* ws: the sheet's rows, top to bottom
    heights,          \* ws.row_dimensions[r].height, 0 when unset
    merged,           \* ws.merged_cells.ranges
    footerRowHeights, \* footer_row_heights, as captured
    footerRowOffset,  \* footer_row_offset returned by the body resize
    saved,            \* wb.save has written the output file
    steps,            \* the steps of the handler completed so far
    response          \* what the request was answered with

textVars == <<sign, splitOut, descOut>>
sumVars == <<items, sumOut>>
docVars == <<signCount, totalsIn, templateMerges, hp, wbLoaded, rows, heights, merged,
             footerRowHeights, footerRowOffset, saved, steps, response>>
vars == <<pc, textVars, sumVars, docVars>>

---------------------------------------------------------------------------
(* Bounds *)

MaxStrLen == 4
MaxComponents == 5
MaxItems == 3
MaxSignCount == 25
TemplateLastRow == 56
NumHeightPatterns == 1

---------------------------------------------------------------------------
(* Characters and strings *)

Upper == <<"A","B","C","D","E","F","G","H","I","J","K","L","M",
           "N","O","P","Q","R","S","T","U","V","W","X","Y","Z">>
Lower == <<"a","b","c","d","e","f","g","h","i","j","k","l","m",
           "n","o","p","q","r","s","t","u","v","w","x","y","z">>
Digits == <<"0","1","2","3","4","5","6","7","8","9">>

SeqToSet(s) == {s[i] : i \in DOMAIN s}

WhiteSpace == {" ", "\t", "\n"}

\* the character class [A-Za-z0-9./&_] of the guardrail regex
CodeChars == SeqToSet(Upper) \cup SeqToSet(Lower) \cup SeqToSet(Digits)
             \cup {".", "/", "&", "_"}

NoneVal == [some |-> FALSE, s |-> <<>>]
Some(s) == [some |-> TRUE, s |-> s]

\* str.strip(): leading and trailing whitespace removed
RECURSIVE LStrip(_)
LStrip(s) == IF s = <<>> \/ Head(s) \notin WhiteSpace THEN s ELSE LStrip(Tail(s))

RECURSIVE RStrip(_)
RStrip(s) == IF s = <<>> \/ s[Len(s)] \notin WhiteSpace THEN s
             ELSE RStrip(SubSeq(s, 1, Len(s) - 1))

Strip(s) == RStrip(LStrip(s))

\* safe_str: "" for None, else the text
safe_str(x) == IF x.some THEN x.s ELSE <<>>

\* positions p at which the pattern \s*- matches: a run of whitespace
\* s[p..q-1] followed by a dash at q
DashMatchStarts(s) ==
    {p \in 1..Len(s) : \E q \in p..Len(s) :
        /\ s[q] = "-"
        /\ \A k \in p..(q - 1) : s[k] \in WhiteSpace}

\* the dash a match starting at p ends its leading whitespace with
DashOfMatch(s, p) ==
    CHOOSE q \in p..Len(s) : s[q] = "-" /\ \A k \in p..(q - 1) : s[k] \in WhiteSpace

\* last position of the greedy \s* after the dash at q
RECURSIVE MatchEnd(_, _)
MatchEnd(s, e) == IF e < Len(s) /\ s[e + 1] \in WhiteSpace THEN MatchEnd(s, e + 1) ELSE e

\* with bug: splits at the last dash instead of the first
ReSplitLastDash(s) ==
    LET ds == {q \in 1..Len(s) : s[q] = "-"} IN
    IF ds = {} THEN <<s>>
    ELSE LET q == CHOOSE d \in ds : \A o \in ds : o <= d IN
         <<RStrip(SubSeq(s, 1, q - 1)), SubSeq(s, MatchEnd(s, q) + 1, Len(s))>>

\* re.split(r"\s*-\s*", s, maxsplit=1): the leftmost match splits the string
ReSplitDash(s) ==
    LET starts == DashMatchStarts(s) IN
    IF starts = {} THEN <<s>>
    ELSE LET p == CHOOSE x \in starts : \A y \in starts : x <= y
             q == DashOfMatch(s, p)
         IN <<SubSeq(s, 1, p - 1), SubSeq(s, MatchEnd(s, q) + 1, Len(s))>>

\* re.match(r"^[A-Za-z0-9./&_]+$", code)
MatchesCode(code) == Len(code) > 0 /\ \A i \in 1..Len(code) : code[i] \in CodeChars

split_sign_type_and_summary(raw) ==
    IF ~raw.some \/ raw.s = <<>> THEN <<(<<>>), (<<>>)>>
    ELSE LET s == Strip(raw.s)
             parts == ReSplitDash(s)
         IN IF Len(parts) = 2 /\ MatchesCode(Strip(parts[1]))
            THEN <<Strip(parts[1]), Strip(parts[2])>>
            ELSE <<s, (<<>>)>>

\* with bug: the entry's description is appended after the summary
DescriptionWithDescriptionLine(sg) ==
    LET summary == split_sign_type_and_summary(Some(safe_str(sg.sign_type)))[2]
        d == Strip(safe_str(sg.description))
    IN IF summary # <<>> THEN (IF d # <<>> THEN Strip(summary) \o <<"\n">> \o d
                               ELSE Strip(summary))
       ELSE d

build_description_one_cell(sg) ==
    LET summary == split_sign_type_and_summary(Some(safe_str(sg.sign_type)))[2]
    IN IF summary # <<>> THEN Strip(summary)
       ELSE Strip(safe_str(sg.description))

---------------------------------------------------------------------------
(* Totals helpers *)

NoNum == [some |-> FALSE, n |-> 0]
Num(n) == [some |-> TRUE, n |-> n]

\* an extended_total as it arrives in the JSON: null, a number or a string
JNull == [t |-> "none", n |-> 0, s |-> <<>>]
JNum(n) == [t |-> "num", n |-> n, s |-> <<>>]
JStr(s) == [t |-> "str", n |-> 0, s |-> s]

DigitVal(c) == CHOOSE i \in 0..9 : Digits[i + 1] = c

RECURSIVE StrToNat(_)
StrToNat(ds) == IF ds = <<>> THEN 0
                ELSE 10 * StrToNat(SubSeq(ds, 1, Len(ds) - 1)) + DigitVal(ds[Len(ds)])

IsDigits(s) == Len(s) > 0 /\ \A i \in 1..Len(s) : s[i] \in SeqToSet(Digits)

\* with bug: "if not x" also rejects the number 0
SafeNumFalsy(x) ==
    IF x.t = "none" \/ (x.t = "str" /\ x.s = <<>>) \/ (x.t = "num" /\ x.n = 0)
    THEN NoNum
    ELSE IF x.t = "num" THEN Num(x.n)
    ELSE IF IsDigits(Strip(x.s)) THEN Num(StrToNat(Strip(x.s))) ELSE NoNum

\* safe_num: None for None and "", float(x) otherwise, None when float() raises
\* (float() of a string ignores surrounding whitespace)
safe_num(x) ==
    IF x.t = "none" \/ (x.t = "str" /\ x.s = <<>>) THEN NoNum
    ELSE IF x.t = "num" THEN Num(x.n)
    ELSE IF IsDigits(Strip(x.s)) THEN Num(StrToNat(Strip(x.s))) ELSE NoNum

\* the loop of sum_extended over items[i..]: <<total, found>>
RECURSIVE SumLoop(_, _, _, _)
SumLoop(its, i, total, found) ==
    IF i > Len(its) THEN <<total, found>>
    ELSE LET val == safe_num(its[i].extended_total) IN
         IF val.some THEN SumLoop(its, i + 1, total + val.n, TRUE)
         ELSE SumLoop(its, i + 1, total, found)

\* sum_extended: items is [some, list]
sum_extended(its) ==
    IF ~its.some \/ its.list = <<>> THEN NoNum
    ELSE LET r == SumLoop(its.list, 1, 0, FALSE) IN
         IF r[2] THEN Num(r[1]) ELSE NoNum

---------------------------------------------------------------------------
(* Cell references and ranges in A1 notation *)

RECURSIVE NatToStr(_)
NatToStr(n) == IF n < 10 THEN <<Digits[n + 1]>>
               ELSE NatToStr(n \div 10) \o <<Digits[(n % 10) + 1]>>

\* str(int), as an f-string formats a row number
IntToStr(n) == IF n < 0 THEN <<"-">> \o NatToStr(-n) ELSE NatToStr(n)

\* length of the leading run of capital letters
RECURSIVE LettersPrefix(_)
LettersPrefix(ref) == IF ref = <<>> \/ Head(ref) \notin SeqToSet(Upper) THEN 0
                      ELSE 1 + LettersPrefix(Tail(ref))

\* CELL_RE = ^([A-Z]+)(\d+)$ ; split_ref returns (ref, None) when it fails
split_ref(ref) ==
    LET k == LettersPrefix(ref) IN
    IF k >= 1 /\ IsDigits(SubSeq(ref, k + 1, Len(ref)))
    THEN [ok |-> TRUE, col |-> SubSeq(ref, 1, k), row |-> StrToNat(SubSeq(ref, k + 1, Len(ref)))]
    ELSE [ok |-> FALSE, col |-> ref, row |-> 0]

\* with bug: the row offset is not applied
ShiftCellRefNoOffset(cell_ref, row_offset) ==
    LET m == split_ref(cell_ref) IN
    IF ~m.ok THEN cell_ref ELSE m.col \o IntToStr(m.row)

shift_cell_ref(cell_ref, row_offset) ==
    LET m == split_ref(cell_ref) IN
    IF ~m.ok THEN cell_ref ELSE m.col \o IntToStr(m.row + row_offset)

HasColon(r) == ":" \in SeqToSet(r)
ColonAt(r) == CHOOSE i \in 1..Len(r) : r[i] = ":"

\* parse_range: the two corners of "A1:B2", or the cell twice
parse_range(a1_range) ==
    IF HasColon(a1_range)
    THEN <<SubSeq(a1_range, 1, ColonAt(a1_range) - 1),
           SubSeq(a1_range, ColonAt(a1_range) + 1, Len(a1_range))>>
    ELSE <<a1_range, a1_range>>

Min(a, b) == IF a <= b THEN a ELSE b
Max(a, b) == IF a >= b THEN a ELSE b

\* with bug: a range across the footer boundary is left where it was
ShiftRangeBelowOnly(a1_range, footer_start_row, row_offset) ==
    LET ab == parse_range(a1_range)
        a == split_ref(ab[1])
        b == split_ref(ab[2])
    IN IF ~a.ok \/ ~b.ok THEN a1_range
       ELSE LET off == IF Min(a.row, b.row) >= footer_start_row THEN row_offset ELSE 0 IN
            IF HasColon(a1_range)
            THEN a.col \o IntToStr(a.row + off) \o <<":">> \o b.col \o IntToStr(b.row + off)
            ELSE a.col \o IntToStr(a.row + off)

shift_range_overlap_safe(a1_range, footer_start_row, row_offset) ==
    LET ab == parse_range(a1_range)
        a == split_ref(ab[1])
        b == split_ref(ab[2])
    IN IF ~a.ok \/ ~b.ok THEN a1_range
       ELSE LET top == Min(a.row, b.row)
                bottom == Max(a.row, b.row)
                should_shift == (top >= footer_start_row)
                                \/ (top < footer_start_row /\ footer_start_row <= bottom)
                apply_shift(ref) ==
                    LET m == split_ref(ref) IN
                    IF ~m.ok THEN ref
                    ELSE m.col \o IntToStr(IF should_shift THEN m.row + row_offset ELSE m.row)
            IN IF HasColon(a1_range)
               THEN apply_shift(ab[1]) \o <<":">> \o apply_shift(ab[2])
               ELSE apply_shift(ab[1])

\* a merged range as the worksheet holds it
Rng(c1, r1, c2, r2) == [minCol |-> c1, minRow |-> r1, maxCol |-> c2, maxRow |-> r2]

RECURSIVE ColIndex(_)
ColIndex(col) == IF col = <<>> THEN 0
                 ELSE 26 * ColIndex(SubSeq(col, 1, Len(col) - 1))
                      + (CHOOSE i \in 1..26 : Upper[i] = col[Len(col)])

\* str(rng): the coordinate of a range, one cell when it has one cell
Coord(rng) ==
    IF rng.minCol = rng.maxCol /\ rng.minRow = rng.maxRow
    THEN rng.minCol \o IntToStr(rng.minRow)
    ELSE rng.minCol \o IntToStr(rng.minRow) \o <<":">> \o rng.maxCol \o IntToStr(rng.maxRow)

\* the range a coordinate string names; not ok when the string is no
\* coordinate or a row is below 1 (merge_cells raises)
ParseCoord(s) ==
    LET ab == parse_range(s)
        a == split_ref(ab[1])
        b == split_ref(ab[2])
    IN IF a.ok /\ b.ok /\ a.row >= 1 /\ a.row <= b.row /\ ColIndex(a.col) <= ColIndex(b.col)
       THEN [ok |-> TRUE, rng |-> Rng(a.col, a.row, b.col, b.row)]
       ELSE [ok |-> FALSE, rng |-> Rng(<<"A">>, 1, <<"A">>, 1)]

\* whether range x lies inside range y
Inside(x, y) ==
    /\ y.minRow <= x.minRow /\ x.maxRow <= y.maxRow
    /\ ColIndex(y.minCol) <= ColIndex(x.minCol) /\ ColIndex(x.maxCol) <= ColIndex(y.maxCol)

RowsOf(rng) == rng.minRow..rng.maxRow

\* save_merged_ranges, for the order the worksheet yields its ranges in
save_merged_ranges(order) == [i \in 1..Len(order) |-> Coord(order[i])]

\* ws.merge_cells(new_rng): raises on a bad coordinate; a range lying inside
\* one that is already merged is not added again
merge_cells(st, new_rng) ==
    LET p == ParseCoord(new_rng) IN
    IF ~st.ok THEN st
    ELSE IF ~p.ok THEN [ok |-> FALSE, merged |-> st.merged]
    ELSE IF \E r \in st.merged : Inside(p.rng, r) THEN st
    ELSE [ok |-> TRUE, merged |-> st.merged \cup {p.rng}]

\* restore_merges: every saved range is re-merged at its shifted place, in
\* the order saved; the first failing merge ends the loop (exception)
RECURSIVE restore_merges(_, _, _, _)
restore_merges(st, merges, footer_start_row, row_offset) ==
    IF merges = <<>> \/ ~st.ok THEN st
    ELSE restore_merges(
            merge_cells(st, shift_range_overlap_safe(Head(merges), footer_start_row, row_offset)),
            Tail(merges), footer_start_row, row_offset)

Perms(S) == {f \in [1..Cardinality(S) -> S] : \A i, j \in DOMAIN f : f[i] = f[j] => i = j}

---------------------------------------------------------------------------
(* The worksheet *)

BODY_START == 28
BODY_END == 47
EXTRA_BLANK == 3
FOOTER_HEIGHT_START == 48
FOOTER_HEIGHT_END == 120

SUBTOTAL_CELL == <<"F", "4", "8">>
SHIPPING_CELL == <<"F", "4", "9">>
INSTALL_CELL == <<"F", "5", "3">>
TOTAL_CELL == <<"F", "5", "4">>

\* A row is [orig, a, data, f]: the template row it was loaded as (0 for a
\* row created later), and the values of column A, columns B-E and column F.
\* A value is [k, i]: nothing, the template's own content, the item number
\* i, the data of the i-th sign type, or a total with its amount.
Cell(k, i) == [k |-> k, i |-> i]
NoValue == Cell("none", 0)
TemplateValue == Cell("tmpl", 0)

BlankRow == [orig |-> 0, a |-> NoValue, data |-> NoValue, f |-> NoValue]
TemplateRow(r) == [orig |-> r, a |-> TemplateValue, data |-> TemplateValue, f |-> TemplateValue]
TemplateRows == [r \in 1..TemplateLastRow |-> TemplateRow(r)]

HeightRows == 1..(FOOTER_HEIGHT_END + MaxSignCount)
NoHeights == [r \in HeightRows |-> 0]

\* the template's row heights: pattern p leaves some rows unset and gives
\* neighbouring rows different heights
TemplateHeight(p, r) ==
    IF r > TemplateLastRow \/ (r + p) % 3 = 0 THEN 0 ELSE 10 + p * (1 + (r % 4))

\* merged ranges a template may hold: above the footer (inside the body),
\* across the body/footer boundary (a short and a tall one), and in the
\* footer.  None covers a cell the handler writes to.
TemplateMergeCandidates ==
    {Rng(<<"G">>, 40, <<"H">>, 41),
     Rng(<<"G">>, 47, <<"H">>, 48),
     Rng(<<"G">>, 50, <<"H">>, 51),
     Rng(<<"I">>, 12, <<"I">>, 50)}

\* lines of wrapped text in column C: of a template row, of the i-th entry
TemplateTextLines(r) == 1 + (r % 2)
SignDescLines(i) == 1 + (i % 3)

\* the sheet grows when a cell below its last row is touched
EnsureRows(rws, r) ==
    IF r <= Len(rws) THEN rws ELSE rws \o [i \in 1..(r - Len(rws)) |-> BlankRow]

SetCell(rws, col, r, v) ==
    LET grown == EnsureRows(rws, r) IN
    [grown EXCEPT ![r] =
        IF col = <<"A">> THEN [@ EXCEPT !.a = v]
        ELSE IF col = <<"F">> THEN [@ EXCEPT !.f = v]
        ELSE [@ EXCEPT !.data = v]]

\* write_cell: ws[cell].value = value
write_cell(rws, cell, value) ==
    LET m == split_ref(cell) IN SetCell(rws, m.col, m.row, value)

\* capture_row_heights: {row: height} for start_row..end_row
capture_row_heights(h, start_row, end_row) == [r \in start_row..end_row |-> h[r]]

\* with bug: the heights are put back at the template rows, not shifted
RestoreRowHeightsUnshifted(h, captured, row_offset) ==
    [r \in DOMAIN h |-> IF r \in DOMAIN captured THEN captured[r] ELSE h[r]]

\* restore_row_heights: row original_row + row_offset gets the captured height
restore_row_heights(h, captured, row_offset) ==
    [r \in DOMAIN h |->
        IF (r - row_offset) \in DOMAIN captured THEN captured[r - row_offset] ELSE h[r]]

\* ws.insert_rows(idx, amount): the cells of rows >= idx move down; the row
\* dimensions (heights) do not move
insert_rows(rws, idx, amount) ==
    SubSeq(rws, 1, idx - 1) \o [i \in 1..amount |-> BlankRow] \o SubSeq(rws, idx, Len(rws))

\* with bug: deletes one row further down
DeleteRowsOneLower(rws, idx, amount) ==
    SubSeq(rws, 1, idx) \o SubSeq(rws, idx + 1 + amount, Len(rws))

\* ws.delete_rows(idx, amount): rows idx..idx+amount-1 go, the rows below
\* move up
delete_rows(rws, idx, amount) ==
    SubSeq(rws, 1, idx - 1) \o SubSeq(rws, idx + amount, Len(rws))

\* copy_row_style over the inserted rows: each takes the height of src_row
copy_row_style(h, src_row, first, last) ==
    [r \in DOMAIN h |-> IF r \in first..last THEN h[src_row] ELSE h[r]]

LastMergedRow(ms) == IF ms = {} THEN 0
                     ELSE CHOOSE r \in {m.maxRow : m \in ms} : \A m \in ms : m.maxRow <= r

\* adjust_body_rows_preserve_footer on ws = [rows, heights, merged]; order is
\* the order in which the worksheet yields its merged ranges
adjust_body_rows_preserve_footer(ws, order, sign_count, body_start, body_end, extra_blank_rows) ==
    LET base_rows == body_end - body_start + 1
        needed_rows == sign_count + extra_blank_rows
        footer_start == body_end + 1
        diff == needed_rows - base_rows
    IN IF diff = 0
       THEN [ok |-> TRUE, rows |-> ws.rows, heights |-> ws.heights,
             merged |-> ws.merged, offset |-> 0]
       ELSE LET merges == save_merged_ranges(order)
                resized == IF diff > 0 THEN insert_rows(ws.rows, footer_start, diff)
                           ELSE delete_rows(ws.rows, body_start + needed_rows, -diff)
                hts == IF diff > 0
                       THEN copy_row_style(ws.heights, body_end, footer_start,
                                           footer_start + diff - 1)
                       ELSE ws.heights
                rm == restore_merges([ok |-> TRUE, merged |-> {}], merges, footer_start, diff)
            IN [ok |-> rm.ok, rows |-> EnsureRows(resized, LastMergedRow(rm.merged)),
                heights |-> hts, merged |-> rm.merged, offset |-> diff]

\* with bug: the clearing loop runs one row too far
ClearBodyOneTooFar(rws, body_start, total_body_rows_needed) ==
    LET grown == EnsureRows(rws, body_start + total_body_rows_needed) IN
    [r \in 1..Len(grown) |->
        IF r \in body_start..(body_start + total_body_rows_needed)
        THEN [grown[r] EXCEPT !.a = NoValue, !.data = NoValue, !.f = NoValue]
        ELSE grown[r]]

\* the clearing loop: columns A-F of the rows the body will use
clear_body(rws, body_start, total_body_rows_needed) ==
    LET grown == EnsureRows(rws, body_start + total_body_rows_needed - 1) IN
    [r \in 1..Len(grown) |->
        IF r \in body_start..(body_start + total_body_rows_needed - 1)
        THEN [grown[r] EXCEPT !.a = NoValue, !.data = NoValue, !.f = NoValue]
        ELSE grown[r]]

\* the loop over sign_types from entry item_num on, at current_row
RECURSIVE write_signs(_, _, _, _)
write_signs(rws, current_row, item_num, sign_count) ==
    IF item_num > sign_count THEN rws
    ELSE write_signs(
            SetCell(SetCell(SetCell(rws, <<"A">>, current_row, Cell("item", item_num)),
                            <<"C">>, current_row, Cell("sign", item_num)),
                    <<"F">>, current_row, Cell("ext", item_num)),
            current_row + 1, item_num + 1, sign_count)

\* the four totals of the payload, as numbers or absent
totals_of(tin) ==
    [subtotal |-> safe_num(tin.sub_total),
     grand_total |-> safe_num(tin.total),
     shipping_total |-> sum_extended(tin.shipping),
     install_total |-> sum_extended(tin.installation)]

WriteIfPresent(rws, cell, kind, v, row_offset) ==
    IF v.some THEN write_cell(rws, shift_cell_ref(cell, row_offset), Cell(kind, v.n)) ELSE rws

\* the totals block: each present total goes to its shifted cell
write_totals(rws, tin, row_offset) ==
    LET tt == totals_of(tin) IN
    WriteIfPresent(
        WriteIfPresent(
            WriteIfPresent(
                WriteIfPresent(rws, SUBTOTAL_CELL, "subtotal", tt.subtotal, row_offset),
                SHIPPING_CELL, "shipping", tt.shipping_total, row_offset),
            INSTALL_CELL, "install", tt.install_total, row_offset),
        TOTAL_CELL, "grand", tt.grand_total, row_offset)

\* lines of the text in column C of a row
TextLines(row) ==
    IF row.data.k = "sign" THEN SignDescLines(row.data.i)
    ELSE IF row.data.k = "tmpl" THEN TemplateTextLines(row.orig)
    ELSE 1

\* approximate_autofit_rows over row_start..row_end, column C
approximate_autofit_rows(h, rws, row_start, row_end, min_height) ==
    [r \in DOMAIN h |->
        IF r \in row_start..row_end THEN Max(min_height, TextLines(rws[r]) * 15) ELSE h[r]]

\* with bug: the failure is swallowed and the request answered as a success
AnswerSuccessOnError(detail) == [status |-> 200, file |-> TRUE, detail |-> detail]

\* except Exception: HTTPException(500)
server_error(detail) == [status |-> 500, file |-> FALSE, detail |-> detail]

client_error(detail) == [status |-> 400, file |-> FALSE, detail |-> detail]

NoResponse == [status |-> 0, file |-> FALSE, detail |-> "none"]
Success == [status |-> 200, file |-> TRUE, detail |-> "none"]

---------------------------------------------------------------------------
(* Inputs of the text and totals functions *)

RECURSIVE StringsUpTo(_, _)
StringsUpTo(alphabet, n) ==
    IF n = 0 THEN {<<>>}
    ELSE LET shorter == StringsUpTo(alphabet, n - 1) IN
         shorter \cup {Append(s, c) : s \in {x \in shorter : Len(x) = n - 1}, c \in alphabet}

\* a code character, the dash, whitespace and a character no code may hold
TextAlphabet == {"D", "-", " ", "!"}

DonorSignType == <<"D"," ","-"," ","D","o","n","o","r"," ","R","o","o","m">>
DonorRoom == <<"D","o","n","o","r"," ","R","o","o","m">>
DottedSignType == <<"E","5",".","W","-","1","2","x","1","8"," ","D","O","T">>
NoDashHere == <<"n","o"," ","d","a","s","h"," ","h","e","r","e">>

SignTypeInputs ==
    {NoneVal} \cup {Some(s) : s \in StringsUpTo(TextAlphabet, MaxStrLen)}
    \cup {Some(DonorSignType), Some(DottedSignType), Some(NoDashHere)}

DescriptionInputs ==
    {NoneVal, Some(<<>>), Some(<<"D">>), Some(<<"d", " ">>), Some(<<"x">>), Some(DonorRoom)}

\* components of an entry, in order: the entry holds the first n of these
Component(d, dim, q) == [description |-> d, dimensions |-> dim, qty |-> q]
ComponentCatalogue(k) ==
    IF k = 1 THEN Component(<<"P","a","n","e","l">>, <<"2","x","4">>, <<"2">>)
    ELSE IF k % 2 = 0 THEN Component(<<"c">>, <<>>, <<Digits[(k % 10) + 1]>>)
    ELSE Component(<<"c">>, <<Digits[(k % 10) + 1]>>, <<>>)

SignInputs ==
    {[sign_type |-> st, description |-> de,
      components |-> [k \in 1..n |-> ComponentCatalogue(k)]] :
        st \in SignTypeInputs, de \in DescriptionInputs, n \in 0..MaxComponents}

JsonValues == {JNull, JStr(<<>>), JStr(<<"b","a","d">>), JNum(0), JNum(5), JNum(10),
               JStr(<<" ", "5">>)}

RECURSIVE ListsUpTo(_, _)
ListsUpTo(S, n) ==
    IF n = 0 THEN {<<>>}
    ELSE LET shorter == ListsUpTo(S, n - 1) IN
         shorter \cup {Append(l, [extended_total |-> v]) :
                          l \in {x \in shorter : Len(x) = n - 1}, v \in S}

NoList == [some |-> FALSE, list |-> <<>>]
SomeList(l) == [some |-> TRUE, list |-> l]

ItemsInputs == {NoList} \cup {SomeList(l) : l \in ListsUpTo(JsonValues, MaxItems)}

---------------------------------------------------------------------------
(* Specification of the text functions: an entry is drawn, then split and   *)
(* described.                                                               *)

NoSign == [sign_type |-> NoneVal, description |-> NoneVal, components |-> <<>>]
NoTotals == [sub_total |-> JNull, total |-> JNull, shipping |-> NoList, installation |-> NoList]

TextIdle == sign = NoSign /\ splitOut = <<(<<>>), (<<>>)>> /\ descOut = <<>>
SumIdle == items = NoList /\ sumOut = NoNum
DocIdle ==
    /\ signCount = 0
    /\ totalsIn = NoTotals
    /\ templateMerges = {}
    /\ hp = 0
    /\ wbLoaded = FALSE
    /\ rows = <<>>
    /\ heights = NoHeights
    /\ merged = {}
    /\ footerRowHeights = capture_row_heights(NoHeights, FOOTER_HEIGHT_START, FOOTER_HEIGHT_END)
    /\ footerRowOffset = 0
    /\ saved = FALSE
    /\ steps = <<>>
    /\ response = NoResponse

TextInit ==
    /\ pc = "text_new"
    /\ sign \in SignInputs
    /\ splitOut = <<(<<>>), (<<>>)>>
    /\ descOut = <<>>
    /\ SumIdle
    /\ DocIdle

DoSplit ==
    /\ pc = "text_new"
    /\ splitOut' = split_sign_type_and_summary(sign.sign_type)
    /\ pc' = "text_split"
    /\ UNCHANGED <<sign, descOut, sumVars, docVars>>

DoDescribe ==
    /\ pc = "text_split"
    /\ descOut' = build_description_one_cell(sign)
    /\ pc' = "text_described"
    /\ UNCHANGED <<sign, splitOut, sumVars, docVars>>

TextNext == DoSplit \/ DoDescribe

SpecText == TextInit /\ [][TextNext]_vars

---------------------------------------------------------------------------
(* Specification of sum_extended: a list is drawn, then summed.             *)

SumInit ==
    /\ pc = "sum_new"
    /\ items \in ItemsInputs
    /\ sumOut = NoNum
    /\ TextIdle
    /\ DocIdle

DoSum ==
    /\ pc = "sum_new"
    /\ sumOut' = sum_extended(items)
    /\ pc' = "sum_done"
    /\ UNCHANGED <<items, textVars, docVars>>

SumNext == DoSum

SpecSum == SumInit /\ [][SumNext]_vars

---------------------------------------------------------------------------
(* Specification of the handler generate_proposal: one request, step by     *)
(* step.  The payload and the template are drawn where the handler first    *)
(* reads them.                                                              *)

AllSteps == <<"decode", "load", "capture", "header", "resize", "clear", "signs",
              "totals", "autofit", "restore", "save">>

TotalsInputs ==
    {[sub_total |-> st, total |-> gt, shipping |-> sh, installation |-> ins] :
        st \in {JNull, JNum(100)},
        gt \in {JNull, JStr(<<"2", "5", "0">>)},
        sh \in {NoList, SomeList(<<[extended_total |-> JNum(10)],
                                   [extended_total |-> JStr(<<"b","a","d">>)],
                                   [extended_total |-> JNum(5)]>>)},
        ins \in {SomeList(<<>>), SomeList(<<[extended_total |-> JNum(0)]>>)}}

\* rows of the header and party cells (E5, D8, D11, C11, ..., C25)
HeaderRows == {5, 8, 11, 13, 16, 17, 22, 23, 25}

Init ==
    /\ pc = "receive"
    /\ DocIdle
    /\ TextIdle
    /\ SumIdle

Step(name, next) == steps' = Append(steps, name) /\ pc' = next

Abort(resp) == response' = resp /\ pc' = "done"

\* payload missing, not JSON, or not a non-empty object: 400
RejectPayload ==
    /\ pc = "receive"
    /\ \E why \in {"missing", "invalid_json", "not_object"} : Abort(client_error(why))
    /\ UNCHANGED <<textVars, sumVars, signCount, totalsIn, templateMerges, hp, wbLoaded,
                   rows, heights, merged, footerRowHeights, footerRowOffset, saved, steps>>

AcceptPayload ==
    /\ pc = "receive"
    /\ \E n \in 0..MaxSignCount : signCount' = n
    /\ Step("decode", "template")
    /\ UNCHANGED <<textVars, sumVars, totalsIn, templateMerges, hp, wbLoaded, rows,
                   heights, merged, footerRowHeights, footerRowOffset, saved, response>>

\* os.path.exists(TEMPLATE_PATH) is false: 500 before the workbook is loaded
TemplateMissing ==
    /\ pc = "template"
    /\ Abort([status |-> 500, file |-> FALSE, detail |-> "template_missing"])
    /\ UNCHANGED <<textVars, sumVars, signCount, totalsIn, templateMerges, hp, wbLoaded,
                   rows, heights, merged, footerRowHeights, footerRowOffset, saved, steps>>

\* load_workbook raises
LoadFails ==
    /\ pc = "template"
    /\ Abort(server_error("load"))
    /\ UNCHANGED <<textVars, sumVars, signCount, totalsIn, templateMerges, hp, wbLoaded,
                   rows, heights, merged, footerRowHeights, footerRowOffset, saved, steps>>

\* the workbook has no sheet SHEET_NAME
SheetMissing ==
    /\ pc = "template"
    /\ wbLoaded' = TRUE
    /\ Abort(server_error("sheet_missing"))
    /\ UNCHANGED <<textVars, sumVars, signCount, totalsIn, templateMerges, hp,
                   rows, heights, merged, footerRowHeights, footerRowOffset, saved, steps>>

\* load_workbook, ws = wb[SHEET_NAME], insert_logo
LoadTemplate ==
    /\ pc = "template"
    /\ \E tm \in SUBSET TemplateMergeCandidates, p \in 1..NumHeightPatterns :
        /\ templateMerges' = tm
        /\ merged' = tm
        /\ hp' = p
        /\ heights' = [r \in HeightRows |-> TemplateHeight(p, r)]
    /\ wbLoaded' = TRUE
    /\ rows' = TemplateRows
    /\ Step("load", "capture")
    /\ UNCHANGED <<textVars, sumVars, signCount, totalsIn, footerRowHeights,
                   footerRowOffset, saved, response>>

CaptureHeights ==
    /\ pc = "capture"
    /\ footerRowHeights' = capture_row_heights(heights, FOOTER_HEIGHT_START, FOOTER_HEIGHT_END)
    /\ Step("capture", "header")
    /\ UNCHANGED <<textVars, sumVars, signCount, totalsIn, templateMerges, hp, wbLoaded,
                   rows, heights, merged, footerRowOffset, saved, response>>

WriteHeader ==
    /\ pc = "header"
    /\ rows' = [r \in 1..Len(rows) |->
                  IF r \in HeaderRows THEN [rows[r] EXCEPT !.data = Cell("hdr", 0)] ELSE rows[r]]
    /\ Step("header", "resize")
    /\ UNCHANGED <<textVars, sumVars, signCount, totalsIn, templateMerges, hp, wbLoaded,
                   heights, merged, footerRowHeights, footerRowOffset, saved, response>>

Adjusted(order) ==
    adjust_body_rows_preserve_footer([rows |-> rows, heights |-> heights, merged |-> merged],
                                     order, signCount, BODY_START, BODY_END, EXTRA_BLANK)

AdjustBody ==
    /\ pc = "resize"
    /\ \E order \in Perms(merged) :
        LET r == Adjusted(order) IN
        /\ r.ok
        /\ rows' = r.rows
        /\ heights' = r.heights
        /\ merged' = r.merged
        /\ footerRowOffset' = r.offset
    /\ Step("resize", "clear")
    /\ UNCHANGED <<textVars, sumVars, signCount, totalsIn, templateMerges, hp, wbLoaded,
                   footerRowHeights, saved, response>>

\* a merge raises inside restore_merges: the request ends in the handler's
\* except clause, the sheet half restored
AdjustBodyFails ==
    /\ pc = "resize"
    /\ \E order \in Perms(merged) :
        LET r == Adjusted(order) IN
        /\ ~r.ok
        /\ rows' = r.rows
        /\ heights' = r.heights
        /\ merged' = r.merged
    /\ Abort(server_error("resize"))
    /\ UNCHANGED <<textVars, sumVars, signCount, totalsIn, templateMerges, hp, wbLoaded,
                   footerRowHeights, footerRowOffset, saved, steps>>

ClearBody ==
    /\ pc = "clear"
    /\ rows' = clear_body(rows, BODY_START, signCount + EXTRA_BLANK)
    /\ Step("clear", "signs")
    /\ UNCHANGED <<textVars, sumVars, signCount, totalsIn, templateMerges, hp, wbLoaded,
                   heights, merged, footerRowHeights, footerRowOffset, saved, response>>

WriteSigns ==
    /\ pc = "signs"
    /\ rows' = write_signs(rows, BODY_START, 1, signCount)
    /\ Step("signs", "totals")
    /\ UNCHANGED <<textVars, sumVars, signCount, totalsIn, templateMerges, hp, wbLoaded,
                   heights, merged, footerRowHeights, footerRowOffset, saved, response>>

WriteTotals ==
    /\ pc = "totals"
    /\ \E tin \in TotalsInputs :
        /\ totalsIn' = tin
        /\ rows' = write_totals(rows, tin, footerRowOffset)
    /\ Step("totals", "autofit")
    /\ UNCHANGED <<textVars, sumVars, signCount, templateMerges, hp, wbLoaded,
                   heights, merged, footerRowHeights, footerRowOffset, saved, response>>

AutoFit ==
    /\ pc = "autofit"
    /\ heights' = approximate_autofit_rows(heights, rows, 27, Len(rows), 15)
    /\ Step("autofit", "restore")
    /\ UNCHANGED <<textVars, sumVars, signCount, totalsIn, templateMerges, hp, wbLoaded,
                   rows, merged, footerRowHeights, footerRowOffset, saved, response>>

RestoreHeights ==
    /\ pc = "restore"
    /\ heights' = restore_row_heights(heights, footerRowHeights, footerRowOffset)
    /\ Step("restore", "save")
    /\ UNCHANGED <<textVars, sumVars, signCount, totalsIn, templateMerges, hp, wbLoaded,
                   rows, merged, footerRowHeights, footerRowOffset, saved, response>>

Save ==
    /\ pc = "save"
    /\ saved' = TRUE
    /\ Step("save", "respond")
    /\ UNCHANGED <<textVars, sumVars, signCount, totalsIn, templateMerges, hp, wbLoaded,
                   rows, heights, merged, footerRowHeights, footerRowOffset, response>>

\* wb.save raises
SaveFails ==
    /\ pc = "save"
    /\ Abort(server_error("save"))
    /\ UNCHANGED <<textVars, sumVars, signCount, totalsIn, templateMerges, hp, wbLoaded,
                   rows, heights, merged, footerRowHeights, footerRowOffset, saved, steps>>

\* the JSON response naming the file
Respond ==
    /\ pc = "respond"
    /\ Abort(Success)
    /\ UNCHANGED <<textVars, sumVars, signCount, totalsIn, templateMerges, hp, wbLoaded,
                   rows, heights, merged, footerRowHeights, footerRowOffset, saved, steps>>

Next ==
    \/ RejectPayload \/ AcceptPayload
    \/ TemplateMissing \/ LoadFails \/ SheetMissing \/ LoadTemplate
    \/ CaptureHeights \/ WriteHeader
    \/ AdjustBody \/ AdjustBodyFails
    \/ ClearBody \/ WriteSigns \/ WriteTotals
    \/ AutoFit \/ RestoreHeights
    \/ Save \/ SaveFails \/ Respond

Spec == Init /\ [][Next]_vars

---------------------------------------------------------------------------
(* The splitter and the composer as the specification words them *)

FirstDash(s) == CHOOSE d \in 1..Len(s) : s[d] = "-" /\ \A k \in 1..(d - 1) : s[k] # "-"

\* split at the first dash, the spaces around it consumed; the left-hand side
\* is a code when it is non-empty and made of code characters only
SplitAsSpecified(raw) ==
    IF ~raw.some \/ raw.s = <<>> THEN <<(<<>>), (<<>>)>>
    ELSE IF "-" \notin SeqToSet(raw.s) THEN <<raw.s, (<<>>)>>
    ELSE LET d == FirstDash(raw.s)
             left == RStrip(SubSeq(raw.s, 1, d - 1))
             right == LStrip(SubSeq(raw.s, d + 1, Len(raw.s)))
         IN IF left # <<>> /\ SeqToSet(left) \subseteq CodeChars
            THEN <<left, right>>
            ELSE <<raw.s, (<<>>)>>

Trimmed(raw) == IF raw.some THEN Some(Strip(raw.s)) ELSE raw

ToLowerChar(c) == IF \E i \in 1..26 : Upper[i] = c
                  THEN Lower[CHOOSE i \in 1..26 : Upper[i] = c] ELSE c
ToLower(s) == [i \in 1..Len(s) |-> ToLowerChar(s[i])]

RECURSIVE JoinWith(_, _)
JoinWith(sep, ls) == IF ls = <<>> THEN <<>>
                     ELSE IF Len(ls) = 1 THEN ls[1]
                     ELSE ls[1] \o sep \o JoinWith(sep, Tail(ls))

NonEmptyOnes(ls) == SelectSeq(ls, LAMBDA l : l # <<>>)

BulletLine(c) ==
    <<"*", " ">> \o JoinWith(<<" ", "|", " ">>,
        NonEmptyOnes(<<c.description, c.dimensions,
                       IF c.qty = <<>> THEN <<>> ELSE <<"Q","t","y"," ">> \o c.qty>>))

OmittedBullet == <<"*", " ", "(", "o", "m", "i", "t", "t", "e", "d", ")">>

ComposeAsSpecified(sg) ==
    LET summary == split_sign_type_and_summary(Some(safe_str(sg.sign_type)))[2]
        desc == safe_str(sg.description)
        n == Len(sg.components)
        shown == IF n > 4 THEN 4 ELSE n      \* N, default 4
        bullets == [k \in 1..shown |-> BulletLine(sg.components[k])]
                   \o (IF n > 4 THEN <<OmittedBullet>> ELSE <<>>)
        lines == <<summary>>
                 \o (IF desc # <<>> /\ ToLower(desc) # ToLower(summary)
                     THEN <<desc>> ELSE <<>>)
                 \o bullets
    IN JoinWith(<<"\n">>, NonEmptyOnes(lines))

DonorSign == [sign_type |-> Some(DonorSignType), description |-> Some(DonorRoom),
              components |-> <<ComponentCatalogue(1)>>]

---------------------------------------------------------------------------
(* Claims about the text functions (specification SpecText)                 *)

\* C6 as claimed: the description cell is the newline-join of the summary,
\* the entry's description when it differs from the summary ignoring case,
\* and one bullet per component (at most four, then an "omitted" bullet).
C6_ComposerAsClaimed ==
    pc = "text_described" => descOut = ComposeAsSpecified(sign)

\* C6 as amended: the description cell is the summary split from sign_type
\* when that is non-empty, and otherwise the entry's description, trimmed;
\* components never contribute, and the Donor Room example yields exactly
\* "Donor Room".
C6_SummaryElseDescription ==
    pc = "text_described" =>
        /\ splitOut[2] # <<>> => descOut = splitOut[2]
        /\ splitOut[2] = <<>> => descOut = Strip(safe_str(sign.description))
        /\ sign = DonorSign => descOut = DonorRoom

C6_Witness ==
    /\ pc = "text_described"
    /\ sign = DonorSign
    /\ descOut = DonorRoom
    /\ ComposeAsSpecified(sign) # descOut

\* C7 as claimed: the splitter splits the input string at its first dash and
\* returns (code, summary) when the left-hand side is a code, else
\* (wholeString, ""); empty or absent input gives ("", "").
C7_SplitAsClaimed ==
    pc \in {"text_split", "text_described"} =>
        splitOut = SplitAsSpecified(sign.sign_type)

\* C7 as amended: the same rule holds of the input with its leading and
\* trailing whitespace removed: the whole string returned is the trimmed one.
C7_SplitOfTrimmed ==
    pc \in {"text_split", "text_described"} =>
        splitOut = SplitAsSpecified(Trimmed(sign.sign_type))

C7_Witness ==
    /\ pc = "text_split"
    /\ sign.sign_type = Some(<<" ", "D", "-", "-">>)
    /\ splitOut = <<(<<"D">>), (<<"-">>)>>

---------------------------------------------------------------------------
(* Claim about sum_extended (specification SpecSum)                         *)

Parseable(v) == v.t = "num" \/ (v.t = "str" /\ IsDigits(Strip(v.s)))
NumericValue(v) == IF v.t = "num" THEN v.n ELSE StrToNat(Strip(v.s))

RECURSIVE SumOver(_, _)
SumOver(l, idx) == IF idx = {} THEN 0
                   ELSE LET i == CHOOSE x \in idx : TRUE IN
                        NumericValue(l[i].extended_total) + SumOver(l, idx \ {i})

\* C9: sum_extended returns absent for an absent or empty list and when no
\* entry has a parseable extended_total; otherwise it returns the sum of
\* exactly the parseable values, so that zeros give 0 and not absent.
C9_SumOfParseable ==
    pc = "sum_done" =>
        LET idx == {i \in 1..Len(items.list) : Parseable(items.list[i].extended_total)}
        IN /\ (~items.some \/ idx = {}) => sumOut = NoNum
           /\ (items.some /\ idx # {}) => sumOut = Num(SumOver(items.list, idx))

C9_Witness ==
    /\ pc = "sum_done"
    /\ items = SomeList(<<[extended_total |-> JNum(10)],
                          [extended_total |-> JStr(<<"b","a","d">>)],
                          [extended_total |-> JNum(5)]>>)
    /\ sumOut = Num(15)

---------------------------------------------------------------------------
(* Claims about the handler (specification Spec)                            *)

Did(s) == \E i \in 1..Len(steps) : steps[i] = s

NeededRows == signCount + EXTRA_BLANK
Displacement == NeededRows - (BODY_END - BODY_START + 1)
FooterStart == BODY_END + 1
FooterRows == FooterStart..TemplateLastRow
DeletedRows == IF Displacement < 0 THEN (BODY_START + NeededRows)..BODY_END ELSE {}
MissingTemplateRows == {r \in 1..TemplateLastRow : \A i \in 1..Len(rows) : rows[i].orig # r}

\* C1: after the body resize the body holds exactly signCount + extraBlankRows
\* rows between bodyStart and the first footer row, the returned displacement
\* is needed - base, every footer row is still there (moved by the
\* displacement), and a deletion removes exactly the rows from
\* bodyStart + needed through bodyEnd.
C1_BodyResized ==
    Did("resize") =>
        /\ footerRowOffset = Displacement
        /\ rows[BODY_START + NeededRows].orig = FooterStart
        /\ \A r \in BODY_START..(BODY_START + NeededRows - 1) : rows[r].orig \notin FooterRows
        /\ \A r \in FooterRows : rows[r + Displacement].orig = r
        /\ \A r \in 1..(BODY_START - 1) : rows[r].orig = r
        /\ MissingTemplateRows = DeletedRows

C1_Witness ==
    /\ pc = "clear"
    /\ signCount = 5
    /\ footerRowOffset = -12
    /\ MissingTemplateRows = 36..47

TotalRow(cell) == split_ref(cell).row

TotalLanded(cell, kind, v) ==
    v.some => /\ rows[TotalRow(cell) + Displacement].f = Cell(kind, v.n)
              /\ rows[TotalRow(cell) + Displacement].orig = TotalRow(cell)

\* C2: every total that is present is in column F of its template row moved
\* by the displacement, which is the row the template's footer row of that
\* index now occupies; with 25 sign types the body has 28 rows, the
\* displacement is 8 and the grand total is 8 rows below its template row.
C2_TotalsFollowFooter ==
    Did("totals") =>
        /\ TotalLanded(SUBTOTAL_CELL, "subtotal", totals_of(totalsIn).subtotal)
        /\ TotalLanded(SHIPPING_CELL, "shipping", totals_of(totalsIn).shipping_total)
        /\ TotalLanded(INSTALL_CELL, "install", totals_of(totalsIn).install_total)
        /\ TotalLanded(TOTAL_CELL, "grand", totals_of(totalsIn).grand_total)
        /\ signCount = 25 =>
            /\ footerRowOffset = 8
            /\ rows[BODY_START + 28].orig = FooterStart
            /\ totals_of(totalsIn).grand_total.some =>
                  rows[TotalRow(TOTAL_CELL) + 8].f.k = "grand"

C2_Witness ==
    /\ pc = "autofit"
    /\ signCount = 25
    /\ rows[62].f = Cell("grand", 250)
    /\ rows[62].orig = 54
    /\ rows[57].f = Cell("shipping", 15)

\* C3: after a resize and the merge restore, no restored range sits at its
\* old coordinates although rows of it were deleted, and no restored range
\* reaches below row 1 or past the last row of the resized sheet.
C3_RestoredMergesValid ==
    (Did("resize") /\ footerRowOffset # 0) =>
        /\ \A t \in templateMerges :
              (RowsOf(t) \cap DeletedRows # {}
               /\ shift_range_overlap_safe(Coord(t), FooterStart, footerRowOffset) = Coord(t))
              => t \notin merged
        /\ \A m \in merged : m.minRow >= 1 /\ m.maxRow <= TemplateLastRow + footerRowOffset

\* where the claim puts a recorded range after the restore
ClaimedPlace(t) ==
    IF t.minRow >= FooterStart \/ (t.minRow < FooterStart /\ FooterStart <= t.maxRow)
    THEN Rng(t.minCol, t.minRow + footerRowOffset, t.maxCol, t.maxRow + footerRowOffset)
    ELSE t

C5_FooterHeightsRestored ==
    /\ Did("capture") =>
          \A r \in FOOTER_HEIGHT_START..FOOTER_HEIGHT_END :
              footerRowHeights[r] = TemplateHeight(hp, r)
    /\ Did("restore") =>
          \A r \in FOOTER_HEIGHT_START..FOOTER_HEIGHT_END :
              heights[r + Displacement] = TemplateHeight(hp, r)
    /\ steps = SubSeq(AllSteps, 1, Len(steps))

C5_Witness ==
    /\ saved
    /\ footerRowOffset = 8
    /\ heights[56] = TemplateHeight(hp, 48)
    /\ heights[56] # TemplateHeight(hp, 56)
    /\ heights[56] # Max(15, TextLines(rows[56]) * 15)

\* C8: a response naming a document is given only after every step through
\* the save; a 400 is given before the template is loaded, a missing
\* template or sheet gives a 500 with the sheet untouched, and a failing
\* structural step gives a 500 naming no document.
C8_NoPartialDocument ==
    /\ (response.file \/ response.status = 200) =>
          (response = Success /\ saved /\ steps = AllSteps /\ pc = "done")
    /\ response.status = 400 => (~wbLoaded /\ rows = <<>> /\ steps = <<>>)
    /\ response.detail \in {"template_missing", "load", "sheet_missing"} =>
          (response.status = 500 /\ rows = <<>> /\ ~saved)
    /\ response.detail \in {"resize", "save"} =>
          (response.status = 500 /\ ~response.file /\ ~saved /\ pc = "done")

C8_Witness ==
    /\ pc = "done"
    /\ response.status = 500
    /\ response.detail = "resize"
    /\ rows # TemplateRows

\* C10: once the body is written, row bodyStart + i - 1 holds item number i
\* and the i-th sign type, the blank rows after the last entry hold nothing
\* in columns A-F, and no footer row was cleared or written by the body.
C10_BodyWritten ==
    Did("signs") =>
        /\ \A i \in 1..signCount :
              /\ rows[BODY_START + i - 1].a = Cell("item", i)
              /\ rows[BODY_START + i - 1].data = Cell("sign", i)
              /\ rows[BODY_START + i - 1].f = Cell("ext", i)
        /\ \A r \in (BODY_START + signCount)..(BODY_START + NeededRows - 1) :
              rows[r].a = NoValue /\ rows[r].data = NoValue /\ rows[r].f = NoValue
        /\ \A r \in FooterRows :
              /\ rows[r + Displacement].a = TemplateValue
              /\ rows[r + Displacement].data = TemplateValue
              /\ rows[r + Displacement].f.k \in {"tmpl", "subtotal", "shipping", "install", "grand"}

C10_Witness ==
    /\ pc = "totals"
    /\ signCount = 25
    /\ rows[52].a = Cell("item", 25)
    /\ rows[55].a = NoValue
    /\ rows[56].orig = 48

====
